---- MODULE Spec2Model ----
(***************************************************************************)
(* rag-guardian: the resilient HTTP adapter (integrations/custom.py,       *)
(* integrations/base.py), the evaluation pipeline (core/pipeline.py,       *)
(* core/types.py, metrics/base.py) and the evaluation of one test case by  *)
(* the four metrics (metrics/*.py) as state machines.                      *)
(*                                                                         *)
(* Scores and thresholds are floats in the source; here thresholds and the *)
(* pipeline's scores are integers in thousandths (0.8 is 800), averages    *)
(* are pairs <<sum, count>>, and the values the metrics compute are exact  *)
(* fractions in lowest terms (rounding of floats is not modelled).         *)
(* Texts are strings; their characters are read with SubSeq.               *)
(***************************************************************************)
EXTENDS Integers, Sequences, FiniteSets, TLC

\* ------------------------------------------------------------------ bounds

\* max_retries is drawn from 0 .. MaxRetriesBound (the source's default is 3)
MaxRetriesBound == 4

\* evaluate_dataset is given 0 .. MaxCases test cases
MaxCases == 2

\* ------------------------------------------------------------- state

VARIABLES
    \* --- CustomHTTPAdapter
    max_retries,   \* self.max_retries
    op,            \* the public method running: "none", "execute", "retrieve", "generate"
    ep,            \* the endpoint of the _retry_request call in progress
    fallback,      \* TRUE inside super().execute(query), the 404 fallback
    pc,            \* position: "idle", "retry", "backoff", "returned", "raised", "done"
    attempt,       \* the loop variable of _retry_request
    last_error,    \* the local last_error of _retry_request
    resp,          \* the response _retry_request returned
    exc,           \* the exception leaving _retry_request
    calllog,       \* events of the _retry_request call in progress: requests and sleeps
    history,       \* how each finished _retry_request call of this operation ended
    reqCount,      \* requests sent per endpoint during this operation
    contexts,      \* the local contexts of BaseRAGAdapter.execute
    outcome,       \* what the public method returned or raised
    query,         \* the query argument of the public method running
    payload,       \* the json body of the request of the _retry_request call in progress
    \* --- EvaluationPipeline
    config,           \* self.config.metrics: per metric enabled, threshold, required
    metrics,          \* self.metrics: the enabled metrics, in insertion order
    test_cases,       \* the list given to evaluate_dataset
    ppc,              \* position: "start", "loop", "metrics", "finished", "error" in
                      \* evaluate_dataset; "direct", "returned", "propagated" when
                      \* evaluate_test_case is called by the user
                      \* ("absent" while no pipeline is constructed)
    idx,              \* index of the test case of the for loop
    mi,               \* index into self.metrics of the inner for loop
    metric_scores,    \* the local metric_scores of evaluate_test_case
    failure_reasons,  \* the local failure_reasons of evaluate_test_case
    results,          \* the local results of evaluate_dataset
    evaluation,       \* the EvaluationResult returned
    events,           \* adapter.execute and metric.evaluate invocations, in order
    \* --- one metric evaluation: TestCase(...), RAGOutput(...), metric.evaluate(...)
    raw_case,         \* the arguments given to TestCase(...)
    raw_output,       \* the arguments given to RAGOutput(...)
    test_case,        \* the TestCase constructed, NoObject before
    rag_output,       \* the RAGOutput constructed, NoObject before
    mpc,              \* position: "start", "case", "ready", "scored", "done", "direct", "failed"
                      \* ("absent" while no metric is being evaluated)
    cur_metric,       \* index into MetricNames of the metric being evaluated
    computed,         \* what metric.compute returned or raised
    metric_score,     \* the MetricScore constructed last, NoObject if none
    score_args,       \* the arguments of the last MetricScore(...) call
    raised            \* the exception that ended the run, and where it was raised

adapterVars == <<max_retries, op, ep, fallback, pc, attempt, last_error, resp, exc,
                 calllog, history, reqCount, contexts, outcome, query, payload>>

pipelineVars == <<config, metrics, test_cases, ppc, idx, mi, metric_scores, failure_reasons,
                  results, evaluation, events>>

metricVars == <<raw_case, raw_output, test_case, rag_output, mpc, cur_metric, computed,
                metric_score, score_args, raised>>

vars == <<adapterVars, pipelineVars, metricVars>>

\* ------------------------------------------------ CustomHTTPAdapter: data

Endpoints == {"rag", "retrieve", "generate"}

\* httpx.TimeoutException, httpx.ConnectError, httpx.RequestError:
\* the three except clauses of _retry_request
RetryableErrors == {"TimeoutException", "ConnectError", "RequestError"}

\* the status code execute treats as "combined endpoint not found"
NotFound == 404

\* statuses on which response.raise_for_status() raises HTTPStatusError
ErrorStatuses == {403, NotFound, 500}

NoBody == [valid |-> FALSE, answer |-> "", contexts |-> <<>>]

\* what response.json() yields: not a JSON object (valid = FALSE), or an object
\* whose "answer" / "contexts" are missing or empty ("" / <<>>) or present
Bodies == {NoBody} \cup [valid : {TRUE}, answer : {"", "ans"}, contexts : {<<>>, <<"ctx">>}]

\* what one call of func (httpx.post + raise_for_status) does
TransportResults ==
    [tag : {"ok"}, code : {200}, body : Bodies]
    \cup [tag : RetryableErrors, code : {0}, body : {NoBody}]
    \cup [tag : {"HTTPStatusError"}, code : ErrorStatuses, body : {NoBody}]
    \cup [tag : {"Unexpected"}, code : {0}, body : {NoBody}]

NoExc == [kind |-> "none", code |-> 0, cause |-> "none"]

NoOutcome ==
    [kind |-> "none", why |-> "", cause |-> "none", question |-> "", answer |-> "",
     contexts |-> <<>>]

\* the queries the public methods are called with
Queries == {"q1", "q2"}

NoPayload == [query |-> "", contexts |-> <<>>]

\* json={"query": query} for /rag and /retrieve,
\* json={"query": query, "contexts": contexts} for /generate;
\* the key "contexts" is absent (<<>>) or holds the list (<<list>>)
RequestBody(e, q, ctxs) ==
    [query |-> q, contexts |-> IF e = "generate" THEN <<ctxs>> ELSE <<>>]

ReqEvent(k, r) ==
    [kind |-> "req", k |-> k, out |-> r.tag, code |-> r.code, body |-> r.body, secs |-> 0]

SleepEvent(k, s) ==
    [kind |-> "sleep", k |-> k, out |-> "", code |-> 0, body |-> NoBody, secs |-> s]

\* ---------------------------------------- CustomHTTPAdapter._retry_request

\* faulty variant: the loop catches httpx.HTTPError, which HTTPStatusError derives from
IsRetryable_AnyHTTPError(tag) == tag \in RetryableErrors \cup {"HTTPStatusError"}

\* except httpx.TimeoutException / httpx.ConnectError / httpx.RequestError
IsRetryable(tag) == tag \in RetryableErrors

\* faulty variant: range(self.max_retries + 1)
MoreAttempts_OffByOne(a, m) == a <= m

\* for attempt in range(self.max_retries)
MoreAttempts(a, m) == a < m

\* if attempt < self.max_retries - 1
SleepsAfter(a, m) == a < m - 1

\* faulty variant: wait_time = 2 * attempt
wait_time_Linear(a) == 2 * a

\* wait_time = 2**attempt
wait_time(a) == 2 ^ a

\* faulty variant: the fallback is taken on every HTTP error status
IsNotFound_AnyStatus(code) == TRUE

\* faulty variant: the fallback is taken on every 4xx status
IsNotFound_ClientError(code) == code \in 400 .. 499

\* if e.response.status_code == 404
IsNotFound(code) == code = NotFound

\* faulty variant: the attempts already spent count against the next call
StartCall_SharedBudget(e) ==
    /\ ep' = e
    /\ attempt' = attempt
    /\ last_error' = "none"
    /\ calllog' = <<>>
    /\ resp' = NoBody
    /\ exc' = NoExc
    /\ pc' = "retry"

\* entering _retry_request for endpoint e
StartCall(e) ==
    /\ ep' = e
    /\ attempt' = 0
    /\ last_error' = "none"
    /\ calllog' = <<>>
    /\ resp' = NoBody
    /\ exc' = NoExc
    /\ pc' = "retry"

\* a public method of the adapter is called
Call(o) ==
    /\ UNCHANGED <<pipelineVars, metricVars>>
    /\ pc = "idle"
    /\ op' = o
    /\ StartCall(IF o = "execute" THEN "rag" ELSE o)
    /\ \E q \in Queries :
        /\ query' = q
        /\ payload' = RequestBody(IF o = "execute" THEN "rag" ELSE o, q, contexts)
    /\ UNCHANGED <<max_retries, fallback, history, reqCount, contexts, outcome>>

\* one iteration of the loop: func(*args, **kwargs) and the except clauses
RetryAttempt ==
    /\ UNCHANGED <<pipelineVars, metricVars>>
    /\ UNCHANGED <<query, payload>>
    /\ pc = "retry"
    /\ MoreAttempts(attempt, max_retries)
    /\ \E r \in TransportResults :
        /\ reqCount' = [reqCount EXCEPT ![ep] = @ + 1]
        /\ calllog' = Append(calllog, ReqEvent(attempt, r))
        /\ IF r.tag = "ok"
           THEN /\ pc' = "returned"
                /\ resp' = r.body
                /\ UNCHANGED <<last_error, exc>>
           ELSE IF IsRetryable(r.tag)
           THEN /\ pc' = "backoff"
                /\ last_error' = r.tag
                /\ UNCHANGED <<resp, exc>>
           ELSE /\ pc' = "raised"
                /\ exc' = [kind |-> r.tag, code |-> r.code, cause |-> "none"]
                /\ UNCHANGED <<resp, last_error>>
    /\ UNCHANGED <<max_retries, op, ep, fallback, attempt, history, contexts, outcome>>

\* after a caught error, further attempts remain: time.sleep(2**attempt)
Backoff ==
    /\ UNCHANGED <<pipelineVars, metricVars>>
    /\ UNCHANGED <<query, payload>>
    /\ pc = "backoff"
    /\ SleepsAfter(attempt, max_retries)
    /\ calllog' = Append(calllog, SleepEvent(attempt, wait_time(attempt)))
    /\ attempt' = attempt + 1
    /\ pc' = "retry"
    /\ UNCHANGED <<max_retries, op, ep, fallback, last_error, resp, exc, history,
                   reqCount, contexts, outcome>>

\* after a caught error on the last attempt: no sleep
NoBackoff ==
    /\ UNCHANGED <<pipelineVars, metricVars>>
    /\ UNCHANGED <<query, payload>>
    /\ pc = "backoff"
    /\ ~SleepsAfter(attempt, max_retries)
    /\ attempt' = attempt + 1
    /\ pc' = "retry"
    /\ UNCHANGED <<max_retries, op, ep, fallback, last_error, resp, exc, calllog,
                   history, reqCount, contexts, outcome>>

\* the loop is over: raise IntegrationError(...) from last_error
RetryExhausted ==
    /\ UNCHANGED <<pipelineVars, metricVars>>
    /\ UNCHANGED <<query, payload>>
    /\ pc = "retry"
    /\ ~MoreAttempts(attempt, max_retries)
    /\ exc' = [kind |-> "IntegrationError", code |-> 0, cause |-> last_error]
    /\ pc' = "raised"
    /\ UNCHANGED <<max_retries, op, ep, fallback, attempt, last_error, resp, calllog,
                   history, reqCount, contexts, outcome>>

\* ------------------------------- CustomHTTPAdapter.retrieve / generate / execute

\* faulty variant: only the answer is validated
RAGOutputValid_AnswerOnly(answer, ctxs) == answer # ""

\* RAGOutput.__post_init__: the answer and the contexts must not be empty
RAGOutputValid(answer, ctxs) == answer # "" /\ ctxs # <<>>

\* faulty variant: the RAGOutput does not carry the query
ReturnRAGOutput_NoQuestion(answer, ctxs) ==
    [kind |-> "RAGOutput", why |-> "", cause |-> "none", question |-> "",
     answer |-> answer, contexts |-> ctxs]

\* return RAGOutput(question=query, answer=..., contexts=...)
ReturnRAGOutput(answer, ctxs) ==
    [kind |-> "RAGOutput", why |-> "", cause |-> "none", question |-> query,
     answer |-> answer, contexts |-> ctxs]

RaiseIntegrationError(why, cause) ==
    [kind |-> "IntegrationError", why |-> why, cause |-> cause, question |-> "",
     answer |-> "", contexts |-> <<>>]

RaiseValueError ==
    [kind |-> "ValueError", why |-> "", cause |-> "none", question |-> "", answer |-> "",
     contexts |-> <<>>]

\* the except clause of retrieve / generate / execute that catches exception e
Clause(e) ==
    IF e.kind = "HTTPStatusError" THEN "HTTPStatusError"
    ELSE IF e.kind = "IntegrationError" THEN "IntegrationError"
    ELSE "Exception"

\* the IntegrationError that retrieve and generate raise for exception e
WrapError(e) ==
    IF Clause(e) = "HTTPStatusError" THEN RaiseIntegrationError("status", "HTTPStatusError")
    ELSE IF Clause(e) = "IntegrationError" THEN RaiseIntegrationError("exhausted", e.cause)
    ELSE RaiseIntegrationError("unexpected", e.kind)

\* execute's fallback: except IntegrationError as fallback_error: raise IntegrationError(...)
FallbackError(err) == RaiseIntegrationError("fallback_failed", err.why)

\* the public method ends with outcome o
Finish(o) ==
    /\ outcome' = o
    /\ pc' = "done"
    /\ UNCHANGED <<ep, attempt, last_error, calllog, resp, exc>>

\* the _retry_request call in progress is over: its endpoint, how it ended, the
\* status code of the HTTPStatusError, the body sent and the body received
Ended(how) ==
    Append(history, [ep |-> ep, how |-> how, code |-> exc.code, sent |-> payload,
                     received |-> resp])

\* execute, after _retry_request returned the /rag response
ExecuteReturns ==
    /\ UNCHANGED <<pipelineVars, metricVars>>
    /\ UNCHANGED <<query, payload>>
    /\ pc = "returned" /\ ep = "rag"
    /\ history' = Ended("ok")
    /\ IF resp.valid /\ RAGOutputValid(resp.answer, resp.contexts)
       THEN Finish(ReturnRAGOutput(resp.answer, resp.contexts))
       ELSE \* response.json() or RAGOutput(...) raised: except Exception
            Finish(RaiseIntegrationError("unexpected", IF resp.valid THEN "ValueError" ELSE "JSON"))
    /\ UNCHANGED <<max_retries, op, fallback, reqCount, contexts>>

\* execute, with an exception leaving _retry_request for /rag
ExecuteHandles ==
    /\ UNCHANGED <<pipelineVars, metricVars>>
    /\ pc = "raised" /\ ep = "rag"
    /\ history' = Ended(Clause(exc))
    /\ IF Clause(exc) = "HTTPStatusError" /\ IsNotFound(exc.code)
       THEN \* return super().execute(query): contexts = self.retrieve(query)
            /\ fallback' = TRUE
            /\ StartCall("retrieve")
            /\ payload' = RequestBody("retrieve", query, contexts)
            /\ UNCHANGED outcome
       ELSE /\ Finish(WrapError(exc))
            /\ UNCHANGED <<fallback, payload>>
    /\ UNCHANGED <<max_retries, op, reqCount, contexts, query>>

\* retrieve, after _retry_request returned the /retrieve response
RetrieveReturns ==
    /\ UNCHANGED <<pipelineVars, metricVars>>
    /\ pc = "returned" /\ ep = "retrieve"
    /\ history' = Ended("ok")
    /\ IF ~resp.valid
       THEN /\ Finish(IF fallback
                      THEN FallbackError(RaiseIntegrationError("unexpected", "JSON"))
                      ELSE RaiseIntegrationError("unexpected", "JSON"))
            /\ UNCHANGED <<contexts, payload>>
       ELSE IF fallback
       THEN \* answer = self.generate(query, contexts)
            /\ contexts' = resp.contexts
            /\ StartCall("generate")
            /\ payload' = RequestBody("generate", query, contexts')
            /\ UNCHANGED outcome
       ELSE /\ Finish([NoOutcome EXCEPT !.kind = "contexts", !.contexts = resp.contexts])
            /\ UNCHANGED <<contexts, payload>>
    /\ UNCHANGED <<max_retries, op, fallback, reqCount, query>>

\* generate, after _retry_request returned the /generate response
GenerateReturns ==
    /\ UNCHANGED <<pipelineVars, metricVars>>
    /\ UNCHANGED <<query, payload>>
    /\ pc = "returned" /\ ep = "generate"
    /\ history' = Ended("ok")
    /\ IF ~resp.valid
       THEN Finish(IF fallback
                   THEN FallbackError(RaiseIntegrationError("unexpected", "JSON"))
                   ELSE RaiseIntegrationError("unexpected", "JSON"))
       ELSE IF fallback
       THEN \* BaseRAGAdapter.execute: return RAGOutput(question, answer, contexts)
            IF RAGOutputValid(resp.answer, contexts)
            THEN Finish(ReturnRAGOutput(resp.answer, contexts))
            ELSE Finish(RaiseValueError)
       ELSE Finish([NoOutcome EXCEPT !.kind = "answer", !.answer = resp.answer])
    /\ UNCHANGED <<max_retries, op, fallback, reqCount, contexts>>

\* retrieve or generate, with an exception leaving _retry_request
SplitHandles ==
    /\ UNCHANGED <<pipelineVars, metricVars>>
    /\ UNCHANGED <<query, payload>>
    /\ pc = "raised" /\ ep \in {"retrieve", "generate"}
    /\ history' = Ended(Clause(exc))
    /\ Finish(IF fallback THEN FallbackError(WrapError(exc)) ELSE WrapError(exc))
    /\ UNCHANGED <<max_retries, op, fallback, reqCount, contexts>>

\* the caller has the result; the adapter is ready for the next call
Return ==
    /\ UNCHANGED <<pipelineVars, metricVars>>
    /\ pc = "done"
    /\ pc' = "idle"
    /\ op' = "none"
    /\ ep' = "none"
    /\ fallback' = FALSE
    /\ attempt' = 0
    /\ last_error' = "none"
    /\ resp' = NoBody
    /\ exc' = NoExc
    /\ calllog' = <<>>
    /\ history' = <<>>
    /\ reqCount' = [e \in Endpoints |-> 0]
    /\ contexts' = <<>>
    /\ outcome' = NoOutcome
    /\ query' = ""
    /\ payload' = NoPayload
    /\ UNCHANGED max_retries

\* CustomHTTPAdapter.__init__ with max_retries = m
AdapterInit(m) ==
    /\ max_retries = m
    /\ op = "none"
    /\ ep = "none"
    /\ fallback = FALSE
    /\ pc = "idle"
    /\ attempt = 0
    /\ last_error = "none"
    /\ resp = NoBody
    /\ exc = NoExc
    /\ calllog = <<>>
    /\ history = <<>>
    /\ reqCount = [e \in Endpoints |-> 0]
    /\ contexts = <<>>
    /\ outcome = NoOutcome
    /\ query = ""
    /\ payload = NoPayload

\* the pipeline, not constructed
PipelineAbsent ==
    /\ config = <<>>
    /\ metrics = <<>>
    /\ test_cases = <<>>
    /\ ppc = "absent"
    /\ idx = 0
    /\ mi = 0
    /\ metric_scores = <<>>
    /\ failure_reasons = <<>>
    /\ results = <<>>
    /\ evaluation = <<>>
    /\ events = <<>>

\* no object constructed (yet)
NoObject == <<>>

\* compute has not returned
NoValue == [kind |-> "none", num |-> 0, den |-> 1]

\* no exception
NoRaise == [kind |-> "none", at |-> ""]

\* no metric is being evaluated
MetricsAbsent ==
    /\ raw_case = <<>>
    /\ raw_output = <<>>
    /\ test_case = NoObject
    /\ rag_output = NoObject
    /\ mpc = "absent"
    /\ cur_metric = 0
    /\ computed = NoValue
    /\ metric_score = NoObject
    /\ score_args = <<>>
    /\ raised = NoRaise

InitAdapter ==
    /\ \E m \in 0 .. MaxRetriesBound : AdapterInit(m)
    /\ PipelineAbsent
    /\ MetricsAbsent

NextAdapter ==
    \/ \E o \in {"execute", "retrieve", "generate"} : Call(o)
    \/ RetryAttempt
    \/ Backoff
    \/ NoBackoff
    \/ RetryExhausted
    \/ ExecuteReturns
    \/ ExecuteHandles
    \/ RetrieveReturns
    \/ GenerateReturns
    \/ SplitHandles
    \/ Return

SpecAdapter == InitAdapter /\ [][NextAdapter]_vars

\* ------------------------------------------------ EvaluationPipeline: data

\* the metrics in the order _initialize_metrics inserts them into self.metrics
MetricNames == <<"faithfulness", "groundedness", "context_relevancy", "answer_correctness">>

Names == {MetricNames[i] : i \in 1 .. Len(MetricNames)}

\* MetricConfig.threshold = 0.8, in thousandths
DefaultThreshold == 800

\* the thresholds of the configuration: the default for two metrics, a lower and
\* a higher one for the others
Thresholds ==
    [n \in Names |-> CASE n = "context_relevancy" -> 500
                       [] n = "answer_correctness" -> 950
                       [] OTHER -> DefaultThreshold]

\* Config.metrics: each metric disabled, enabled and optional, or enabled and required
Configs ==
    UNION { { [n \in Names |->
                 [enabled |-> n \in E, threshold |-> Thresholds[n], required |-> n \in R]]
              : R \in SUBSET E }
            : E \in SUBSET Names }

\* the values metric.compute returns, in thousandths: just below 0.8, and 0.8
Scores == {DefaultThreshold - 1, DefaultThreshold}

\* TestCase(question = "Q<i>")
TestCaseNo(i) == [question |-> "Q" \o ToString(i)]

\* the RAGOutput adapter.execute returns for a question
RAGOutputFor(q) == [question |-> q, answer |-> "ans", contexts |-> <<"ctx">>]

ExecuteEvent(i) == [kind |-> "execute", case |-> i, metric |-> ""]

EvaluateEvent(i, name) == [kind |-> "evaluate", case |-> i, metric |-> name]

\* the except clause of evaluate_dataset is entered for case i
RaisedEvent(i) == [kind |-> "raised", case |-> i, metric |-> ""]

\* ------------------------------------------------ EvaluationPipeline: helpers

\* faulty variant: every metric is built, enabled or not
InitializeMetrics_All(cfg) ==
    [i \in 1 .. Len(MetricNames) |->
        [name |-> MetricNames[i], threshold |-> cfg[MetricNames[i]].threshold,
         required |-> cfg[MetricNames[i]].required]]

\* EvaluationPipeline._initialize_metrics: one metric per enabled configuration entry
InitializeMetrics(cfg) ==
    LET en == SelectSeq(MetricNames, LAMBDA n : cfg[n].enabled)
    IN  [i \in 1 .. Len(en) |->
            [name |-> en[i], threshold |-> cfg[en[i]].threshold, required |-> cfg[en[i]].required]]

\* faulty variant: passed = value > self.threshold
Passed_Strict(value, threshold) == value > threshold

\* BaseMetric.evaluate: passed = value >= self.threshold
Passed(value, threshold) == value >= threshold

\* BaseMetric.evaluate: the MetricScore for the value compute returned
Evaluate(metric, value) ==
    [metric_name |-> metric.name, value |-> value,
     passed |-> Passed(value, metric.threshold), threshold |-> metric.threshold]

\* faulty variant: every failing metric is tracked, required or not
TracksFailure_AnyMetric(score, metric) == ~score.passed

\* evaluate_test_case: if not score.passed and metric.required
TracksFailure(score, metric) == ~score.passed /\ metric.required

Digit(d) == ToString(d)

\* f"{x:.2f}" for x = v / 1000 in [0, 1], v not ending in 5 (no rounding tie)
Fmt2(v) ==
    LET h == (v + 5) \div 10
    IN  ToString(h \div 100) \o "." \o Digit((h \div 10) % 10) \o Digit(h % 10)

\* str(x) for the float x = t / 1000 in [0, 10): shortest repr, at least one decimal
FmtFloat(t) ==
    LET f == t % 1000
        frac == IF f % 100 = 0 THEN Digit(f \div 100)
                ELSE IF f % 10 = 0 THEN Digit(f \div 100) \o Digit((f \div 10) % 10)
                ELSE Digit(f \div 100) \o Digit((f \div 10) % 10) \o Digit(f % 10)
    IN  ToString(t \div 1000) \o "." \o frac

\* f"{metric_name} failed: {score.value:.2f} < {score.threshold}"
FormatReason(metric_name, score) ==
    metric_name \o " failed: " \o Fmt2(score.value) \o " < " \o FmtFloat(score.threshold)

\* sum(1 for r in results if r.passed)
RECURSIVE PassedCount(_)
PassedCount(rs) ==
    IF rs = <<>> THEN 0
    ELSE (IF rs[1].passed THEN 1 ELSE 0) + PassedCount(Tail(rs))

\* [r.metric_scores[name].value for r in results if name in r.metric_scores]
RECURSIVE ScoresOf(_, _)
ScoresOf(rs, name) ==
    IF rs = <<>> THEN <<>>
    ELSE (IF name \in DOMAIN rs[1].metric_scores
          THEN <<rs[1].metric_scores[name].value>> ELSE <<>>) \o ScoresOf(Tail(rs), name)

\* sum(scores)
RECURSIVE Sum(_)
Sum(xs) == IF xs = <<>> THEN 0 ELSE xs[1] + Sum(Tail(xs))

\* faulty variant: a case dropped after an exception counts as a zero: sum(scores) / len(test_cases)
AvgOf_OverAllCases(rs, name) == <<Sum(ScoresOf(rs, name)), Len(test_cases)>>

\* sum(scores) / len(scores), as the pair <<numerator, denominator>>
AvgOf(rs, name) == <<Sum(ScoresOf(rs, name)), Len(ScoresOf(rs, name))>>

\* EvaluationPipeline._calculate_summary: a map from key to <<numerator, denominator>>
CalculateSummary(rs) ==
    IF rs = <<>> THEN <<>>
    ELSE LET avgKeys == {"avg_" \o metrics[i].name : i \in
                            {j \in 1 .. Len(metrics) : ScoresOf(rs, metrics[j].name) # <<>>}}
             nameOf(k) == CHOOSE n \in Names : k = "avg_" \o n
             keys == avgKeys \cup {"pass_rate", "total_tests", "passed_tests", "failed_tests"}
         IN  [k \in keys |->
                 CASE k = "pass_rate" -> <<PassedCount(rs), Len(rs)>>
                   [] k = "total_tests" -> <<Len(rs), 1>>
                   [] k = "passed_tests" -> <<PassedCount(rs), 1>>
                   [] k = "failed_tests" -> <<Len(rs) - PassedCount(rs), 1>>
                   [] OTHER -> AvgOf(rs, nameOf(k))]

\* faulty variant: overall_passed = any(r.passed for r in results)
AllPassed_Any(rs) == \E i \in 1 .. Len(rs) : rs[i].passed

\* all(r.passed for r in results)
AllPassed(rs) == \A i \in 1 .. Len(rs) : rs[i].passed

\* EvaluationResult.total_tests
total_tests(er) == Len(er.test_case_results)

\* EvaluationResult.passed_tests
passed_tests(er) == PassedCount(er.test_case_results)

\* EvaluationResult.failed_tests
failed_tests(er) == total_tests(er) - passed_tests(er)

\* ------------------------------------------------ EvaluationPipeline: actions

NoLocals ==
    /\ mi' = 0
    /\ metric_scores' = <<>>
    /\ failure_reasons' = <<>>

\* faulty variant: an empty list gives an EvaluationResult with no case results
EmptyDataset_ReturnsEmpty ==
    /\ ppc = "start"
    /\ test_cases = <<>>
    /\ ppc' = "finished"
    /\ evaluation' = [test_case_results |-> <<>>, passed |-> AllPassed(<<>>),
                      summary |-> CalculateSummary(<<>>)]
    /\ UNCHANGED <<config, metrics, test_cases, idx, mi, metric_scores, failure_reasons,
                   results, events>>
    /\ UNCHANGED <<adapterVars, metricVars>>

\* evaluate_dataset: the list is empty: raise ValueError("No test cases found ...")
EmptyDataset ==
    /\ ppc = "start"
    /\ test_cases = <<>>
    /\ ppc' = "error"
    /\ UNCHANGED <<config, metrics, test_cases, idx, mi, metric_scores, failure_reasons,
                   results, evaluation, events>>
    /\ UNCHANGED <<adapterVars, metricVars>>

\* evaluate_dataset: results = [], the for loop starts
BeginLoop ==
    /\ ppc = "start"
    /\ test_cases # <<>>
    /\ ppc' = "loop"
    /\ idx' = 1
    /\ results' = <<>>
    /\ UNCHANGED <<config, metrics, test_cases, mi, metric_scores, failure_reasons,
                   evaluation, events>>
    /\ UNCHANGED <<adapterVars, metricVars>>

\* evaluate_test_case: rag_output = self.rag_adapter.execute(test_case.question)
AdapterExecute ==
    /\ ppc = "loop"
    /\ idx <= Len(test_cases)
    /\ events' = Append(events, ExecuteEvent(idx))
    /\ ppc' = "metrics"
    /\ mi' = 1
    /\ metric_scores' = <<>>
    /\ failure_reasons' = <<>>
    /\ UNCHANGED <<config, metrics, test_cases, idx, results, evaluation>>
    /\ UNCHANGED <<adapterVars, metricVars>>

\* faulty variant: the case whose adapter call raised is tried again
AdapterRaises_Retry ==
    /\ ppc = "loop"
    /\ idx <= Len(test_cases)
    /\ events' = events \o <<ExecuteEvent(idx), RaisedEvent(idx)>>
    /\ UNCHANGED <<config, metrics, test_cases, ppc, idx, mi, metric_scores,
                   failure_reasons, results, evaluation>>
    /\ UNCHANGED <<adapterVars, metricVars>>

\* adapter.execute raises; evaluate_dataset: except Exception: continue
AdapterRaises ==
    /\ ppc = "loop"
    /\ idx <= Len(test_cases)
    /\ events' = events \o <<ExecuteEvent(idx), RaisedEvent(idx)>>
    /\ idx' = idx + 1
    /\ UNCHANGED <<config, metrics, test_cases, ppc, mi, metric_scores, failure_reasons,
                   results, evaluation>>
    /\ UNCHANGED <<adapterVars, metricVars>>

\* evaluate_test_case: one iteration of for metric_name, metric in self.metrics.items()
MetricEvaluate ==
    /\ ppc \in {"metrics", "direct"}
    /\ mi <= Len(metrics)
    /\ \E v \in Scores :
        LET metric == metrics[mi]
            score == Evaluate(metric, v)
        IN  /\ metric_scores' = (metric.name :> score) @@ metric_scores
            /\ failure_reasons' =
                  IF TracksFailure(score, metric)
                  THEN Append(failure_reasons, FormatReason(metric.name, score))
                  ELSE failure_reasons
    /\ events' = Append(events, EvaluateEvent(idx, metrics[mi].name))
    /\ mi' = mi + 1
    /\ UNCHANGED <<config, metrics, test_cases, ppc, idx, results, evaluation>>
    /\ UNCHANGED <<adapterVars, metricVars>>

\* faulty variant: no try around evaluate_test_case: the exception leaves evaluate_dataset
MetricRaises_Propagates ==
    /\ ppc = "metrics"
    /\ mi <= Len(metrics)
    /\ events' = events \o <<EvaluateEvent(idx, metrics[mi].name), RaisedEvent(idx)>>
    /\ ppc' = "error"
    /\ NoLocals
    /\ UNCHANGED <<config, metrics, test_cases, idx, results, evaluation>>
    /\ UNCHANGED <<adapterVars, metricVars>>

\* metric.evaluate raises; evaluate_dataset: except Exception: continue
MetricRaises ==
    /\ ppc = "metrics"
    /\ mi <= Len(metrics)
    /\ events' = events \o <<EvaluateEvent(idx, metrics[mi].name), RaisedEvent(idx)>>
    /\ ppc' = "loop"
    /\ idx' = idx + 1
    /\ NoLocals
    /\ UNCHANGED <<config, metrics, test_cases, results, evaluation>>
    /\ UNCHANGED <<adapterVars, metricVars>>

\* evaluate_test_case returns the TestCaseResult; evaluate_dataset appends it
CaseResult ==
    /\ ppc = "metrics"
    /\ mi > Len(metrics)
    /\ results' = Append(results,
            [test_case |-> test_cases[idx],
             rag_output |-> RAGOutputFor(test_cases[idx].question),
             metric_scores |-> metric_scores,
             passed |-> Len(failure_reasons) = 0,
             failure_reasons |-> failure_reasons])
    /\ ppc' = "loop"
    /\ idx' = idx + 1
    /\ NoLocals
    /\ UNCHANGED <<config, metrics, test_cases, evaluation, events>>
    /\ UNCHANGED <<adapterVars, metricVars>>

\* evaluate_test_case called by the user on the first test case, outside
\* evaluate_dataset: rag_output = self.rag_adapter.execute(test_case.question)
EvaluateTestCase ==
    /\ ppc = "start"
    /\ test_cases # <<>>
    /\ idx' = 1
    /\ events' = Append(events, ExecuteEvent(1))
    /\ ppc' = "direct"
    /\ mi' = 1
    /\ metric_scores' = <<>>
    /\ failure_reasons' = <<>>
    /\ UNCHANGED <<config, metrics, test_cases, results, evaluation>>
    /\ UNCHANGED <<adapterVars, metricVars>>

\* evaluate_test_case called by the user: adapter.execute raises, nothing catches it
ExecutePropagates ==
    /\ ppc = "start"
    /\ test_cases # <<>>
    /\ idx' = 1
    /\ events' = events \o <<ExecuteEvent(1), RaisedEvent(1)>>
    /\ ppc' = "propagated"
    /\ UNCHANGED <<config, metrics, test_cases, mi, metric_scores, failure_reasons,
                   results, evaluation>>
    /\ UNCHANGED <<adapterVars, metricVars>>

\* evaluate_test_case called by the user: metric.evaluate raises, nothing catches it
MetricPropagates ==
    /\ ppc = "direct"
    /\ mi <= Len(metrics)
    /\ events' = events \o <<EvaluateEvent(idx, metrics[mi].name), RaisedEvent(idx)>>
    /\ ppc' = "propagated"
    /\ NoLocals
    /\ UNCHANGED <<config, metrics, test_cases, idx, results, evaluation>>
    /\ UNCHANGED <<adapterVars, metricVars>>

\* evaluate_test_case called by the user: return TestCaseResult(...)
ReturnTestCaseResult ==
    /\ ppc = "direct"
    /\ mi > Len(metrics)
    /\ results' = <<[test_case |-> test_cases[idx],
                     rag_output |-> RAGOutputFor(test_cases[idx].question),
                     metric_scores |-> metric_scores,
                     passed |-> Len(failure_reasons) = 0,
                     failure_reasons |-> failure_reasons]>>
    /\ ppc' = "returned"
    /\ NoLocals
    /\ UNCHANGED <<config, metrics, test_cases, idx, evaluation, events>>
    /\ UNCHANGED <<adapterVars, metricVars>>

\* evaluate_dataset after the loop: summary, overall_passed, EvaluationResult
Summarize ==
    /\ ppc = "loop"
    /\ idx > Len(test_cases)
    /\ evaluation' = [test_case_results |-> results,
                      passed |-> AllPassed(results),
                      summary |-> CalculateSummary(results)]
    /\ ppc' = "finished"
    /\ UNCHANGED <<config, metrics, test_cases, idx, mi, metric_scores, failure_reasons,
                   results, events>>
    /\ UNCHANGED <<adapterVars, metricVars>>

\* the adapter of the pipeline is not the HTTP adapter: any BaseRAGAdapter
AdapterAbsent ==
    /\ max_retries = 0
    /\ op = "none"
    /\ ep = "none"
    /\ fallback = FALSE
    /\ pc = "absent"
    /\ attempt = 0
    /\ last_error = "none"
    /\ resp = NoBody
    /\ exc = NoExc
    /\ calllog = <<>>
    /\ history = <<>>
    /\ reqCount = [e \in Endpoints |-> 0]
    /\ contexts = <<>>
    /\ outcome = NoOutcome
    /\ query = ""
    /\ payload = NoPayload

\* EvaluationPipeline.__init__ with a configuration, and the list evaluate_dataset gets
InitPipeline ==
    /\ config \in Configs
    /\ metrics = InitializeMetrics(config)
    /\ \E n \in 0 .. MaxCases : test_cases = [i \in 1 .. n |-> TestCaseNo(i)]
    /\ ppc = "start"
    /\ idx = 0
    /\ mi = 0
    /\ metric_scores = <<>>
    /\ failure_reasons = <<>>
    /\ results = <<>>
    /\ evaluation = <<>>
    /\ events = <<>>
    /\ AdapterAbsent
    /\ MetricsAbsent

NextPipeline ==
    \/ EmptyDataset
    \/ BeginLoop
    \/ AdapterExecute
    \/ AdapterRaises
    \/ MetricEvaluate
    \/ MetricRaises
    \/ CaseResult
    \/ Summarize
    \/ EvaluateTestCase
    \/ ExecutePropagates
    \/ MetricPropagates
    \/ ReturnTestCaseResult

SpecPipeline == InitPipeline /\ [][NextPipeline]_vars

\* ------------------------------------------------ str and float, as the metrics use them

\* the i-th character of s, as a string of length one
At(s, i) == SubSeq(s, i, i)

CharsOf(s) == {At(s, i) : i \in 1 .. Len(s)}

UpperCase == "ABCDEFGHIJKLMNOPQRSTUVWXYZ"

LowerCase == "abcdefghijklmnopqrstuvwxyz"

DecimalDigits == "0123456789"

\* str.lower on one cased character
LowerOf ==
    [c \in CharsOf(UpperCase) |->
        At(LowerCase, CHOOSE i \in 1 .. Len(UpperCase) : At(UpperCase, i) = c)]

\* s.lower()
RECURSIVE lower(_)
lower(s) ==
    IF Len(s) = 0 THEN s
    ELSE IF Len(s) = 1 THEN (IF s \in DOMAIN LowerOf THEN LowerOf[s] ELSE s)
    ELSE LET h == Len(s) \div 2
         IN  lower(SubSeq(s, 1, h)) \o lower(SubSeq(s, h + 1, Len(s)))

\* the characters s.split() and s.strip() treat as whitespace
Whitespace == {" ", "\t", "\n"}

IsSpace(c) == c \in Whitespace

\* w.isalnum()
isalnum(w) ==
    /\ Len(w) > 0
    /\ \A i \in 1 .. Len(w) : At(w, i) \in CharsOf(UpperCase \o LowerCase \o DecimalDigits)

\* the positions of s at which a maximal run of characters outside Sep starts
RunStarts(s, Sep) ==
    {i \in 1 .. Len(s) : At(s, i) \notin Sep /\ (i = 1 \/ At(s, i - 1) \in Sep)}

\* the position at which the run starting at i ends
RunEnd(s, Sep, i) ==
    CHOOSE j \in i .. Len(s) :
        /\ j = Len(s) \/ At(s, j + 1) \in Sep
        /\ \A k \in i .. j : At(s, k) \notin Sep

\* set(s.split())
split_set(s) == {SubSeq(s, i, RunEnd(s, Whitespace, i)) : i \in RunStarts(s, Whitespace)}

\* len(s.split())
split_len(s) == Cardinality(RunStarts(s, Whitespace))

\* s.strip()
strip(s) ==
    LET keep == {i \in 1 .. Len(s) : ~IsSpace(At(s, i))}
    IN  IF keep = {} THEN ""
        ELSE SubSeq(s, CHOOSE i \in keep : \A j \in keep : i <= j,
                       CHOOSE i \in keep : \A j \in keep : i >= j)

\* t in s, for strings
IsSubstring(t, s) ==
    \/ Len(t) = 0
    \/ \E i \in 1 .. Len(s) - Len(t) + 1 : SubSeq(s, i, i + Len(t) - 1) = t

\* the elements of a set of positions, in increasing order
RECURSIVE InOrder(_)
InOrder(S) ==
    IF S = {} THEN <<>>
    ELSE LET m == CHOOSE i \in S : \A j \in S : i <= j
         IN  <<m>> \o InOrder(S \ {m})

\* the characters of the pattern [.!?]+
Terminators == {".", "!", "?"}

\* re.split(r"[.!?]+", s) without the empty strings it yields at the ends of s
\* (_extract_claims drops them: "if s.strip()")
re_split(s) ==
    LET st == InOrder(RunStarts(s, Terminators))
    IN  [k \in 1 .. Len(st) |-> SubSeq(s, st[k], RunEnd(s, Terminators, st[k]))]

\* Optional[...]: None is <<>>, a value x is <<x>>
None == <<>>

Some(x) == <<x>>

\* bool(x) for an Optional[str]
TruthyStr(o) == o # None /\ o[1] # ""

\* bool(x) for an Optional[List[str]]
TruthyList(o) == o # None /\ o[1] # <<>>

RECURSIVE GCD(_, _)
GCD(a, b) == IF b = 0 THEN a ELSE GCD(b, a % b)

Abs(n) == IF n < 0 THEN -n ELSE n

\* the float n / d (d > 0), as a fraction in lowest terms
Float(n, d) ==
    LET g == GCD(Abs(n), d)
    IN  [kind |-> "float", num |-> n \div g, den |-> d \div g]

\* an exception of class k in place of a float
Raise(k) == [kind |-> k, num |-> 0, den |-> 1]

IsFloat(x) == x.kind = "float"

\* n / d for integers
Div(n, d) == IF d = 0 THEN Raise("ZeroDivisionError") ELSE Float(n, d)

\* a + b
AddQ(a, b) ==
    IF ~IsFloat(a) THEN a ELSE IF ~IsFloat(b) THEN b
    ELSE Float(a.num * b.den + b.num * a.den, a.den * b.den)

\* a * b
MulQ(a, b) ==
    IF ~IsFloat(a) THEN a ELSE IF ~IsFloat(b) THEN b
    ELSE Float(a.num * b.num, a.den * b.den)

\* a <= b, for floats
LeQ(a, b) == a.num * b.den <= b.num * a.den

\* min(a, b)
MinQ(a, b) ==
    IF ~IsFloat(a) THEN a ELSE IF ~IsFloat(b) THEN b
    ELSE IF LeQ(b, a) THEN b ELSE a

\* sum(xs)
RECURSIVE SumQ(_)
SumQ(xs) == IF xs = <<>> THEN Float(0, 1) ELSE AddQ(xs[1], SumQ(Tail(xs)))

\* max(xs): ValueError for an empty list
RECURSIVE MaxQ(_)
MaxQ(xs) ==
    IF xs = <<>> THEN Raise("ValueError")
    ELSE IF Len(xs) = 1 THEN xs[1]
    ELSE LET r == MaxQ(Tail(xs))
         IN  IF ~IsFloat(xs[1]) THEN xs[1] ELSE IF ~IsFloat(r) THEN r
             ELSE IF LeQ(xs[1], r) /\ ~LeQ(r, xs[1]) THEN r ELSE xs[1]


\* ------------------------------------------------ FaithfulnessMetric

\* _extract_claims: the filter "if s.strip() and len(s.strip()) > 10"
IsClaim(s) == s # "" /\ Len(s) > 10

\* FaithfulnessMetric._extract_claims
extract_claims(answer) ==
    LET sentences == re_split(answer)
        stripped == [k \in 1 .. Len(sentences) |-> strip(sentences[k])]
    IN  SelectSeq(stripped, IsClaim)

\* _is_claim_supported: len(overlap) / len(claim_words), for one context
claim_overlap(claim, context) ==
    LET claim_words == split_set(lower(claim))
        context_words == split_set(lower(context))
        overlap == claim_words \cap context_words
    IN  Div(Cardinality(overlap), Cardinality(claim_words))

\* faulty variant: 60% of the words are enough
MostWords_Inclusive(ratio) == ratio.num * 10 >= 6 * ratio.den

\* _is_claim_supported: if ... > 0.6
MostWords(ratio) == ratio.num * 10 > 6 * ratio.den

\* FaithfulnessMetric._is_claim_supported: True for the first context with enough overlap
is_claim_supported(claim, ctxs) ==
    \E k \in 1 .. Len(ctxs) :
        LET ratio == claim_overlap(claim, ctxs[k])
        IN  IsFloat(ratio) /\ MostWords(ratio)

\* _is_claim_supported divides by zero: a claim without words and a context to compare with
claim_raises(claim, ctxs) ==
    \E k \in 1 .. Len(ctxs) : ~IsFloat(claim_overlap(claim, ctxs[k]))

\* FaithfulnessMetric.compute
FaithfulnessCompute(tc, out) ==
    LET claims == extract_claims(out.answer)
        supported_claims ==
            Cardinality({i \in 1 .. Len(claims) : is_claim_supported(claims[i], out.contexts)})
    IN  IF claims = <<>> THEN Float(1, 1)
        ELSE IF \E i \in 1 .. Len(claims) : claim_raises(claims[i], out.contexts)
        THEN Raise("ZeroDivisionError")
        ELSE Div(supported_claims, Len(claims))

\* ------------------------------------------------ GroundednessMetric

\* GroundednessMetric._extract_key_terms: stop_words
stop_words ==
    {"the", "a", "an", "and", "or", "but", "in", "on", "at", "to", "for", "of", "with",
     "by", "from", "is", "are", "was", "were", "be", "been", "being", "have", "has", "had",
     "do", "does", "did", "will", "would", "could", "should", "may", "might", "can",
     "this", "that", "these", "those"}

\* faulty variant: words of three characters are key terms too
IsMeaningful_AtLeast3(w) == Len(w) >= 3 /\ w \notin stop_words

\* _extract_key_terms: len(w) > 3 and w not in stop_words
IsMeaningful(w) == Len(w) > 3 /\ w \notin stop_words

\* GroundednessMetric._extract_key_terms
extract_key_terms(ctxs) ==
    UNION { {w \in split_set(lower(ctxs[k])) : IsMeaningful(w)} : k \in 1 .. Len(ctxs) }

\* faulty variant: the guard is missing
NoTerms_Never(terms) == FALSE

\* the guard "if not context_terms"
NoTerms(terms) == terms = {}

\* GroundednessMetric.compute
GroundednessCompute(tc, out) ==
    LET context_terms == extract_key_terms(out.contexts)
        answer_lower == lower(out.answer)
        used_terms == Cardinality({t \in context_terms : IsSubstring(t, answer_lower)})
    IN  IF NoTerms(context_terms) THEN Float(1, 1)
        ELSE Div(used_terms, Cardinality(context_terms))

\* ------------------------------------------------ ContextRelevancyMetric

\* the token count from which a context counts as long
LongContext == 200

\* faulty variant: the length test is missing
question_words_AnyLength(question) == {w \in split_set(lower(question)) : isalnum(w)}

\* _compute_relevancy: the meaningful words of the question
question_words(question) ==
    {w \in split_set(lower(question)) : Len(w) > 3 /\ isalnum(w)}

\* faulty variant: a context of exactly 200 tokens is not long yet
length_penalty_Inclusive(context_length) ==
    IF context_length <= LongContext THEN Float(1, 1) ELSE Float(9, 10)

\* _compute_relevancy: length_penalty = 1.0 if context_length < 200 else 0.9
length_penalty(context_length) ==
    IF context_length < LongContext THEN Float(1, 1) ELSE Float(9, 10)

\* ContextRelevancyMetric._compute_relevancy
compute_relevancy(question, context) ==
    LET context_lower == lower(context)
        qw == question_words(question)
        matches == Cardinality({w \in qw : IsSubstring(w, context_lower)})
        coverage == Div(matches, Cardinality(qw))
    IN  IF qw = {} THEN Float(1, 2)
        ELSE MinQ(MulQ(coverage, length_penalty(split_len(context))), Float(1, 1))

\* ContextRelevancyMetric.compute
ContextRelevancyCompute(tc, out) ==
    LET relevancy_scores ==
            [k \in 1 .. Len(out.contexts) |-> compute_relevancy(tc.question, out.contexts[k])]
        total == SumQ(relevancy_scores)
    IN  IF out.contexts = <<>> THEN Float(0, 1)
        ELSE IF ~IsFloat(total) THEN total
        ELSE Div(total.num, total.den * Len(relevancy_scores))

\* ------------------------------------------------ AnswerCorrectnessMetric

\* _compute_similarity: if generated == expected
SameText(generated, expected) == generated = expected

\* faulty variant: the length ratio is len(generated) / len(expected), at most 1
compute_similarity_RatioToExpected(generated, expected) ==
    LET generated_tokens == split_set(generated)
        expected_tokens == split_set(expected)
        intersection == generated_tokens \cap expected_tokens
        union == generated_tokens \cup expected_tokens
        jaccard == Div(Cardinality(intersection), Cardinality(union))
        len_ratio == MinQ(Div(Len(generated), Len(expected)), Float(1, 1))
        combined == AddQ(MulQ(Float(7, 10), jaccard), MulQ(Float(3, 10), len_ratio))
    IN  IF SameText(generated, expected) THEN Float(1, 1)
        ELSE IF expected_tokens = {} THEN Float(0, 1)
        ELSE IF union = {} THEN Float(0, 1)
        ELSE MinQ(combined, Float(1, 1))

\* AnswerCorrectnessMetric._compute_similarity
compute_similarity(generated, expected) ==
    LET generated_tokens == split_set(generated)
        expected_tokens == split_set(expected)
        intersection == generated_tokens \cap expected_tokens
        union == generated_tokens \cup expected_tokens
        jaccard == Div(Cardinality(intersection), Cardinality(union))
        lens == {Len(generated), Len(expected)}
        len_ratio == Div(CHOOSE n \in lens : \A k \in lens : n <= k,
                         CHOOSE n \in lens : \A k \in lens : n >= k)
        combined == AddQ(MulQ(Float(7, 10), jaccard), MulQ(Float(3, 10), len_ratio))
    IN  IF SameText(generated, expected) THEN Float(1, 1)
        ELSE IF expected_tokens = {} THEN Float(0, 1)
        ELSE IF union = {} THEN Float(0, 1)
        ELSE MinQ(combined, Float(1, 1))

\* AnswerCorrectnessMetric.compute
AnswerCorrectnessCompute(tc, out) ==
    LET generated == strip(lower(out.answer))
        expected == strip(lower(tc.expected_answer[1]))
        acceptable == tc.acceptable_answers[1]
        scores == [k \in 1 .. Len(acceptable) |->
                      compute_similarity(generated, strip(lower(acceptable[k])))]
    IN  IF ~TruthyStr(tc.expected_answer) THEN Float(1, 1)
        ELSE IF TruthyList(tc.acceptable_answers) THEN MaxQ(scores)
        ELSE compute_similarity(generated, expected)

\* metric.compute(test_case, rag_output), for the metric of a name
Compute(name, tc, out) ==
    CASE name = "faithfulness" -> FaithfulnessCompute(tc, out)
      [] name = "groundedness" -> GroundednessCompute(tc, out)
      [] name = "context_relevancy" -> ContextRelevancyCompute(tc, out)
      [] name = "answer_correctness" -> AnswerCorrectnessCompute(tc, out)


\* ------------------------------------------------ one metric evaluation: data

\* RAGOutput.contexts holds 0 .. MaxContexts short contexts, or one long context
MaxContexts == 2

\* TestCase.question: empty, with the keyword "what", with two keywords, without keywords
Questions == {"", "What is the price?", "price colors", "Is it?"}

\* TestCase.expected_answer
ExpectedAnswers == {None, Some("Paris"), Some("I do not know")}

\* TestCase.acceptable_answers
AcceptableAnswers == {None, Some(<<>>), Some(<<"The capital is Lyon", "I don't know", " ">>)}

\* RAGOutput.answer: empty; one claim; no claim; two claims around a fragment of exactly
\* 10 characters; claims sharing 3 of 5 words with a context, and 2 of 4 words with each
\* of two contexts
Answers ==
    {"",
     "The product costs $100.",
     "I don't know",
     " PARIS ",
     "Available colors: red, blue, green! Price $100? The product costs $100.",
     "Available colors: red, white, black. Price: $100 available colors:"}

ShortContexts == {"Price: $100", "Available colors: red, blue, green", "To be or not"}

\* n times " a"
RECURSIVE Filler(_)
Filler(n) ==
    IF n = 0 THEN "" ELSE IF n = 1 THEN " a"
    ELSE Filler(n \div 2) \o Filler(n - n \div 2)

\* a context of n whitespace-separated tokens, the first one "price"
ContextOfLength(n) == "price" \o Filler(n - 1)

LongContexts == {ContextOfLength(n) : n \in LongContext - 1 .. LongContext + 1}

ContextLists ==
    {<<>>}
    \cup UNION {[1 .. n -> ShortContexts] : n \in 1 .. MaxContexts}
    \cup {<<c>> : c \in LongContexts}

\* the values MetricScore(...) is called with directly: -0.1, 0.0, 0.5, 1.0, 1.5
DirectValues == {Float(-1, 10), Float(0, 1), Float(1, 2), Float(1, 1), Float(3, 2)}

\* every metric enabled, none required
AllEnabled ==
    [n \in Names |-> [enabled |-> TRUE, threshold |-> Thresholds[n], required |-> FALSE]]

\* ------------------------------------------------ one metric evaluation: actions

\* TestCase.__post_init__: if not self.question: raise ValueError
TestCaseValid(question) == question # ""

\* faulty variant: only 1.0 is an upper bound: "if not self.value <= 1.0"
MetricScoreValid_NoLowerBound(v) == LeQ(v, Float(1, 1))

\* MetricScore.__post_init__: if not 0.0 <= self.value <= 1.0: raise ValueError
MetricScoreValid(v) == LeQ(Float(0, 1), v) /\ LeQ(v, Float(1, 1))

\* faulty variant: the score carries the default threshold, not the metric's
MetricScoreArgs_DefaultThreshold(m, v) ==
    [metric_name |-> m.name, value |-> v,
     passed |-> Passed(v.num * 1000, m.threshold * v.den), threshold |-> DefaultThreshold]

\* BaseMetric.evaluate: the arguments of MetricScore(...); value is v.num / v.den and
\* the threshold is in thousandths
MetricScoreArgs(m, v) ==
    [metric_name |-> m.name, value |-> v,
     passed |-> Passed(v.num * 1000, m.threshold * v.den), threshold |-> m.threshold]

Fails(kind, at) ==
    /\ mpc' = "failed"
    /\ raised' = [kind |-> kind, at |-> at]

\* TestCase(question = ..., expected_answer = ..., acceptable_answers = ...)
ConstructTestCase ==
    /\ mpc = "start"
    /\ IF TestCaseValid(raw_case.question)
       THEN /\ test_case' = raw_case
            /\ mpc' = "case"
            /\ UNCHANGED raised
       ELSE /\ Fails("ValueError", "TestCase")
            /\ UNCHANGED test_case
    /\ UNCHANGED <<raw_case, raw_output, rag_output, cur_metric, computed, metric_score,
                   score_args>>
    /\ UNCHANGED <<adapterVars, pipelineVars>>

\* the adapter's RAGOutput(question = query, answer = ..., contexts = ...)
ConstructRAGOutput ==
    /\ mpc = "case"
    /\ IF RAGOutputValid(raw_output.answer, raw_output.contexts)
       THEN /\ rag_output' = [question |-> test_case.question, answer |-> raw_output.answer,
                              contexts |-> raw_output.contexts]
            /\ mpc' = "ready"
            /\ cur_metric' = 1
            /\ UNCHANGED raised
       ELSE /\ Fails("ValueError", "RAGOutput")
            /\ UNCHANGED <<rag_output, cur_metric>>
    /\ UNCHANGED <<raw_case, raw_output, test_case, computed, metric_score, score_args>>
    /\ UNCHANGED <<adapterVars, pipelineVars>>

\* metric.evaluate(test_case, rag_output): compute, then MetricScore(...)
EvaluateMetric ==
    /\ mpc = "ready"
    /\ LET m == InitializeMetrics(AllEnabled)[cur_metric]
           v == Compute(m.name, test_case, rag_output)
       IN  /\ computed' = v
           /\ IF ~IsFloat(v)
              THEN /\ Fails(v.kind, "compute")
                   /\ UNCHANGED <<metric_score, score_args>>
              ELSE /\ score_args' = MetricScoreArgs(m, v)
                   /\ IF MetricScoreValid(v)
                      THEN /\ metric_score' = MetricScoreArgs(m, v)
                           /\ mpc' = "scored"
                           /\ UNCHANGED raised
                      ELSE /\ Fails("ValueError", "MetricScore")
                           /\ metric_score' = NoObject
    /\ UNCHANGED <<raw_case, raw_output, test_case, rag_output, cur_metric>>
    /\ UNCHANGED <<adapterVars, pipelineVars>>

\* the next metric of self.metrics, or the end of the loop
NextMetric ==
    /\ mpc = "scored"
    /\ IF cur_metric < Len(MetricNames)
       THEN /\ cur_metric' = cur_metric + 1
            /\ mpc' = "ready"
       ELSE /\ mpc' = "done"
            /\ UNCHANGED cur_metric
    /\ UNCHANGED <<raw_case, raw_output, test_case, rag_output, computed, metric_score,
                   score_args, raised>>
    /\ UNCHANGED <<adapterVars, pipelineVars>>

\* a caller constructs MetricScore(metric_name = "test", value = v, passed = True, threshold = 0.8)
DirectScore(v) ==
    /\ mpc = "done"
    /\ LET args == [metric_name |-> "test", value |-> v, passed |-> TRUE,
                    threshold |-> DefaultThreshold]
       IN  /\ score_args' = args
           /\ IF MetricScoreValid(v)
              THEN /\ metric_score' = args
                   /\ mpc' = "direct"
                   /\ UNCHANGED raised
              ELSE /\ metric_score' = NoObject
                   /\ Fails("ValueError", "MetricScore")
    /\ UNCHANGED <<raw_case, raw_output, test_case, rag_output, cur_metric, computed>>
    /\ UNCHANGED <<adapterVars, pipelineVars>>

\* the arguments a caller has for TestCase(...) and an adapter for RAGOutput(...)
InitMetrics ==
    /\ raw_case \in [question : Questions, expected_answer : ExpectedAnswers,
                     acceptable_answers : AcceptableAnswers]
    /\ raw_output \in [answer : Answers, contexts : ContextLists]
    /\ test_case = NoObject
    /\ rag_output = NoObject
    /\ mpc = "start"
    /\ cur_metric = 0
    /\ computed = NoValue
    /\ metric_score = NoObject
    /\ score_args = <<>>
    /\ raised = NoRaise
    /\ AdapterAbsent
    /\ PipelineAbsent

NextMetrics ==
    \/ ConstructTestCase
    \/ ConstructRAGOutput
    \/ EvaluateMetric
    \/ NextMetric
    \/ \E v \in DirectValues : DirectScore(v)

SpecMetrics == InitMetrics /\ [][NextMetrics]_vars


\* ------------------------------------------- CustomHTTPAdapter: properties

\* the requests of the _retry_request call in progress (or just ended)
Reqs == SelectSeq(calllog, LAMBDA e : e.kind = "req")

AllFailed(rs) == \A i \in 1 .. Len(rs) : rs[i].out \in RetryableErrors

\* C1: a _retry_request call never makes more than max_retries attempts; when the
\* transport fails N < max_retries times with a retryable error and then succeeds,
\* the call returns that successful response after exactly N+1 attempts; when all
\* max_retries attempts fail, the call ends after exactly max_retries attempts by
\* raising IntegrationError, and it raises IntegrationError in no other case.
C1_RetryAttempts ==
    LET n == Len(Reqs) IN
    /\ n <= max_retries
    /\ \A i \in 1 .. n : Reqs[i].k = i - 1
    /\ \A i \in 1 .. n - 1 : Reqs[i].out \in RetryableErrors
    /\ (n >= 1 /\ Reqs[n].out = "ok") =>
          /\ pc \in {"returned", "done"}
          /\ resp = Reqs[n].body
          /\ exc = NoExc
    /\ pc = "returned" => (n >= 1 /\ Reqs[n].out = "ok")
    /\ (pc \in {"raised", "done"} /\ ep # "none" /\ n = max_retries /\ AllFailed(Reqs)) =>
          exc.kind = "IntegrationError"
    /\ (pc = "raised" /\ exc.kind = "IntegrationError") =>
          (n = max_retries /\ AllFailed(Reqs))

\* C1 witness: two retryable failures, then success on the third of four attempts
C1_Witness ==
    /\ pc = "returned"
    /\ max_retries = 4
    /\ Len(Reqs) = 3
    /\ Reqs[1].out = "TimeoutException"
    /\ Reqs[2].out = "ConnectError"
    /\ Reqs[3].out = "ok"
    /\ resp.valid

\* C2: a sleep happens only directly after a retryable failure of an attempt k with
\* k < max_retries - 1 and lasts 2^k seconds; every such failure is followed by
\* that sleep and then by attempt k+1; the failure of the final attempt is followed
\* by no sleep and by an IntegrationError whose cause is that last transport error;
\* nothing follows a successful attempt.
C2_Backoff ==
    \A i \in 1 .. Len(calllog) :
        LET e == calllog[i] IN
        /\ e.kind = "sleep" =>
              /\ i > 1
              /\ calllog[i - 1].kind = "req"
              /\ calllog[i - 1].out \in RetryableErrors
              /\ calllog[i - 1].k = e.k
              /\ e.k < max_retries - 1
              /\ e.secs = 2 ^ e.k
        /\ (e.kind = "req" /\ i > 1) =>
              /\ calllog[i - 1].kind = "sleep"
              /\ e.k = calllog[i - 1].k + 1
        /\ (e.kind = "req" /\ e.out \in RetryableErrors /\ e.k < max_retries - 1) =>
              IF i < Len(calllog)
              THEN calllog[i + 1].kind = "sleep" /\ calllog[i + 1].secs = 2 ^ e.k
              ELSE pc = "backoff"
        /\ (e.kind = "req" /\ e.out \in RetryableErrors /\ e.k >= max_retries - 1) =>
              /\ i = Len(calllog)
              /\ pc \in {"raised", "done"} =>
                    (exc.kind = "IntegrationError" /\ exc.cause = e.out)
        /\ (e.kind = "req" /\ e.out = "ok") => i = Len(calllog)

\* C2 witness: four failed attempts with sleeps of 1, 2 and 4 seconds between
\* them, none after the last, and the error raised wraps the last failure
C2_Witness ==
    /\ pc = "raised"
    /\ max_retries = 4
    /\ Len(calllog) = 7
    /\ calllog[2].secs = 1 /\ calllog[4].secs = 2 /\ calllog[6].secs = 4
    /\ calllog[5].out = "TimeoutException"
    /\ calllog[7].out = "RequestError"
    /\ exc.cause = "RequestError"

\* C3: an attempt that ends with an HTTP error status is the last event of its
\* _retry_request call (no further attempt, no sleep), whatever attempts remain,
\* and the HTTPStatusError reaches the calling method's except HTTPStatusError.
C3_StatusNotRetried ==
    /\ \A i \in 1 .. Len(calllog) :
          (calllog[i].kind = "req" /\ calllog[i].out = "HTTPStatusError") =>
              /\ i = Len(calllog)
              /\ pc \in {"raised", "done"}
              /\ exc.kind = "HTTPStatusError"
              /\ exc.code = calllog[i].code
              /\ pc = "done" =>
                    /\ history[Len(history)].ep = ep
                    /\ history[Len(history)].how = "HTTPStatusError"
                    /\ history[Len(history)].code = calllog[i].code
    /\ \A j \in 1 .. Len(history) :
          history[j].how = "HTTPStatusError" => history[j].code \in ErrorStatuses

\* C3 witness: a 500 on the second attempt of four, handed to generate
C3_Witness ==
    /\ pc = "done"
    /\ op = "generate"
    /\ max_retries = 4
    /\ Len(Reqs) = 2
    /\ Reqs[2].out = "HTTPStatusError"
    /\ Reqs[2].code = 500
    /\ outcome.why = "status"

\* C4: within execute, /retrieve or /generate is requested only after the /rag
\* call ended with HTTP 404, /generate only after the /retrieve call (retries
\* included) has returned, /rag is requested before any other endpoint, and after
\* a successful /rag response neither /retrieve nor /generate is requested.
C4_CombinedFirst ==
    op = "execute" =>
        /\ (ep \in {"retrieve", "generate"} \/ reqCount["retrieve"] > 0
                \/ reqCount["generate"] > 0) =>
              /\ Len(history) >= 1
              /\ history[1].ep = "rag"
              /\ history[1].how = "HTTPStatusError"
              /\ history[1].code = 404
              /\ reqCount["rag"] >= 1
        /\ (ep = "generate" \/ reqCount["generate"] > 0) =>
              /\ Len(history) >= 2
              /\ history[2].ep = "retrieve"
              /\ history[2].how = "ok"
              /\ reqCount["retrieve"] >= 1
        /\ (Len(history) >= 1 /\ history[1].how = "ok") =>
              /\ reqCount["retrieve"] = 0
              /\ reqCount["generate"] = 0
              /\ pc = "done"
              /\ ep = "rag"

\* C4 witness: /rag answered 404, /retrieve succeeded on its second attempt, and
\* /generate has been requested
C4_Witness ==
    /\ op = "execute"
    /\ reqCount["rag"] = 1
    /\ reqCount["retrieve"] = 2
    /\ reqCount["generate"] = 1
    /\ outcome.kind = "RAGOutput"

\* C5: when the /rag call of execute ends with an HTTP error status other than
\* 404, or with all attempts failed, execute raises IntegrationError, returns no
\* RAGOutput and requests neither /retrieve nor /generate.
C5_OtherErrorsSurface ==
    (/\ op = "execute"
     /\ Len(history) >= 1
     /\ \/ history[1].how = "HTTPStatusError" /\ history[1].code # 404
        \/ history[1].how = "IntegrationError") =>
        /\ pc = "done"
        /\ ep = "rag"
        /\ ~fallback
        /\ outcome.kind = "IntegrationError"
        /\ reqCount["retrieve"] = 0
        /\ reqCount["generate"] = 0

\* C5 witness: /rag answered 403 after one timeout; execute raised
C5_Witness ==
    /\ op = "execute"
    /\ pc = "done"
    /\ reqCount["rag"] = 2
    /\ Len(history) = 1
    /\ history[1].how = "HTTPStatusError"
    /\ history[1].code = 403
    /\ outcome.kind = "IntegrationError"

\* ------------------------------------------ EvaluationPipeline: properties

\* the enabled metrics that are required, in evaluation order
RequiredNames == SelectSeq(MetricNames, LAMBDA n : config[n].enabled /\ config[n].required)

\* C6: a case result has passed = TRUE if and only if every enabled metric that is
\* required has value >= its threshold; metrics that are not required play no part.
C6_CasePassed ==
    \A j \in 1 .. Len(results) :
        results[j].passed <=>
            \A n \in Names :
                (config[n].enabled /\ config[n].required) =>
                    /\ n \in DOMAIN results[j].metric_scores
                    /\ results[j].metric_scores[n].value >= config[n].threshold

\* C6 witness: a case that passed although an optional metric scored below its
\* threshold, its required metric scoring exactly its threshold
C6_Witness ==
    /\ config["faithfulness"].enabled /\ ~config["faithfulness"].required
    /\ config["groundedness"].enabled /\ config["groundedness"].required
    /\ Len(results) >= 1
    /\ results[1].passed
    /\ results[1].metric_scores["faithfulness"].value < config["faithfulness"].threshold
    /\ results[1].metric_scores["groundedness"].value = config["groundedness"].threshold

\* the failure reasons a result should carry: one per enabled required metric
\* whose value is below its threshold, in evaluation order, joined by sep
ExpectedReasons(r, sep) ==
    LET failing == SelectSeq(RequiredNames,
                       LAMBDA n : r.metric_scores[n].value < config[n].threshold)
    IN  [i \in 1 .. Len(failing) |->
            failing[i] \o sep \o Fmt2(r.metric_scores[failing[i]].value)
                \o " < " \o FmtFloat(config[failing[i]].threshold)]

\* C7 as stated: the entries have the form "<metric>: <value> < <threshold>"
C7_ReasonsAsStated ==
    \A j \in 1 .. Len(results) :
        results[j].failure_reasons = ExpectedReasons(results[j], ": ")

\* C7, amended: failure_reasons holds exactly one entry for each enabled metric
\* that is required and has passed = FALSE, in evaluation order, and none for any
\* other metric; each entry reads "<metric> failed: <value, 2 decimals> < <threshold>".
C7_FailureReasons ==
    \A j \in 1 .. Len(results) :
        /\ results[j].failure_reasons = ExpectedReasons(results[j], " failed: ")
        /\ \A n \in DOMAIN results[j].metric_scores :
              results[j].metric_scores[n].passed <=>
                  results[j].metric_scores[n].value >= config[n].threshold

\* C7 witness: two required metrics failed and one optional metric failed; the
\* reasons name the two required ones, in evaluation order
C7_Witness ==
    /\ Len(results) >= 1
    /\ config["groundedness"].enabled
    /\ ~results[1].metric_scores["groundedness"].passed
    /\ results[1].failure_reasons =
          <<"faithfulness failed: 0.80 < 0.8", "answer_correctness failed: 0.80 < 0.95">>

\* C8: the EvaluationResult returned has passed = TRUE if and only if every
\* TestCaseResult in it has passed = TRUE, that is if and only if failed_tests = 0.
C8_OverallPassed ==
    ppc = "finished" =>
        /\ evaluation.passed <=>
              \A j \in 1 .. Len(evaluation.test_case_results) :
                  evaluation.test_case_results[j].passed
        /\ evaluation.passed <=> failed_tests(evaluation) = 0
        /\ evaluation.test_case_results = results

\* C8 witness: two case results, the first passed and the second failed
C8_Witness ==
    /\ ppc = "finished"
    /\ Len(evaluation.test_case_results) = 2
    /\ evaluation.test_case_results[1].passed
    /\ ~evaluation.test_case_results[2].passed
    /\ ~evaluation.passed

\* the case results that hold a score of metric n
Holding(n) == {j \in 1 .. Len(evaluation.test_case_results) :
                  n \in DOMAIN evaluation.test_case_results[j].metric_scores}

RECURSIVE SumValues(_, _)
SumValues(n, J) ==
    IF J = {} THEN 0
    ELSE LET j == CHOOSE x \in J : TRUE
         IN  evaluation.test_case_results[j].metric_scores[n].value + SumValues(n, J \ {j})

\* C9: with at least one case result, the summary has total_tests = the number of
\* case results, passed_tests + failed_tests = total_tests, pass_rate =
\* passed_tests / total_tests, and for each enabled metric avg_<metric> = the mean
\* of its value over exactly the case results that hold a score for it.
C9_Summary ==
    (ppc = "finished" /\ Len(evaluation.test_case_results) >= 1) =>
        LET sm == evaluation.summary
            n == Len(evaluation.test_case_results)
            np == Cardinality({j \in 1 .. n : evaluation.test_case_results[j].passed})
        IN  /\ sm["total_tests"] = <<n, 1>>
            /\ sm["passed_tests"] = <<np, 1>>
            /\ sm["passed_tests"][1] + sm["failed_tests"][1] = sm["total_tests"][1]
            /\ sm["failed_tests"][2] = 1
            /\ sm["pass_rate"][2] > 0
            /\ sm["pass_rate"][1] * n = np * sm["pass_rate"][2]
            /\ \A m \in Names :
                  config[m].enabled =>
                      /\ ("avg_" \o m) \in DOMAIN sm
                      /\ Holding(m) # {}
                      /\ sm["avg_" \o m][2] > 0
                      /\ sm["avg_" \o m][1] * Cardinality(Holding(m))
                            = SumValues(m, Holding(m)) * sm["avg_" \o m][2]

\* C9 witness: two cases, the second dropped after an exception; the averages are
\* taken over the one case result
C9_Witness ==
    /\ ppc = "finished"
    /\ Len(test_cases) = 2
    /\ Len(evaluation.test_case_results) = 1
    /\ config["groundedness"].enabled
    /\ evaluation.summary["avg_groundedness"] = <<799, 1>>
    /\ evaluation.summary["pass_rate"] = <<0, 1>>

\* the events of case i, in order
CaseEvents(i) == SelectSeq(events, LAMBDA e : e.case = i)

\* every enabled metric of case i has been evaluated, in evaluation order
AllEvaluated(i) ==
    /\ Len(CaseEvents(i)) >= 1 + Len(metrics)
    /\ \A k \in 1 .. Len(metrics) : CaseEvents(i)[k + 1] = EvaluateEvent(i, metrics[k].name)

\* case i was dropped: the except clause of evaluate_dataset was entered for it
Dropped(i) == \E q \in 1 .. Len(CaseEvents(i)) : CaseEvents(i)[q].kind = "raised"

\* the input position of the test case of result r
CaseIndex(r) == CHOOSE i \in 1 .. Len(test_cases) : test_cases[i] = r.test_case

\* the parts of C10 that do not depend on how a case ends: cases are taken in
\* input order with no event of an earlier case after one of a later case,
\* adapter.execute is invoked once per case and before the case's metric
\* evaluations, and test_case_results follows the input order
C10_Order ==
    /\ \A p \in 1 .. Len(events) - 1 : events[p].case <= events[p + 1].case
    /\ \A i \in 1 .. Len(test_cases) :
          LET ce == CaseEvents(i) IN
          /\ (i < idx \/ ppc = "finished") => ce # <<>>
          /\ ce # <<>> =>
                /\ ce[1] = ExecuteEvent(i)
                /\ \A q \in 2 .. Len(ce) :
                      /\ ce[q].kind # "execute"
                      /\ ce[q].kind = "evaluate" =>
                            (q - 1 <= Len(metrics) /\ ce[q].metric = metrics[q - 1].name)
                      /\ ce[q].kind = "raised" => q = Len(ce)
    /\ \A j \in 1 .. Len(results) :
          /\ \E i \in 1 .. Len(test_cases) : test_cases[i] = results[j].test_case
          /\ j < Len(results) => CaseIndex(results[j]) < CaseIndex(results[j + 1])

\* C10 as stated: adapter.execute for case i+1 is not invoked before every enabled
\* metric of case i has been evaluated
C10_AsStated ==
    /\ C10_Order
    /\ \A i \in 1 .. Len(test_cases) - 1 :
          CaseEvents(i + 1) # <<>> => AllEvaluated(i)

\* C10, amended: adapter.execute for case i+1 is invoked only when case i is
\* over: every enabled metric of case i has been evaluated, or case i was dropped
\* because its adapter call or one of its metrics raised. The case results are
\* those of the cases that were not dropped. The other parts are as stated.
C10_Sequential ==
    /\ C10_Order
    /\ \A i \in 1 .. Len(test_cases) - 1 :
          CaseEvents(i + 1) # <<>> => (AllEvaluated(i) \/ Dropped(i))
    /\ \A j \in 1 .. Len(results) :
          AllEvaluated(CaseIndex(results[j])) /\ ~Dropped(CaseIndex(results[j]))

\* C10 witness: two cases, both completed with three metrics each, the second
\* adapter call made after the first case's three evaluations
C10_Witness ==
    /\ ppc = "finished"
    /\ Len(metrics) = 3
    /\ Len(results) = 2
    /\ Len(events) = 8
    /\ events[1] = ExecuteEvent(1)
    /\ events[4].kind = "evaluate" /\ events[4].case = 1
    /\ events[5] = ExecuteEvent(2)

\* ------------------------------------------- metric evaluation: properties

\* the metric whose evaluate call returned last
ScoredName == MetricNames[cur_metric]

\* C11: whenever metric.evaluate returns, the MetricScore carries the metric's name,
\* its value is what compute returned for the case and the output, its threshold
\* is the threshold the metric was configured with, and passed is true exactly
\* when value >= threshold (so a value equal to the threshold passes).
C11_Evaluate ==
    mpc = "scored" =>
        /\ metric_score.metric_name = ScoredName
        /\ metric_score.value = computed
        /\ metric_score.threshold = AllEnabled[ScoredName].threshold
        /\ metric_score.passed <=>
              metric_score.value.num * 1000 >= metric_score.threshold * metric_score.value.den

\* C11 witness: context relevancy of exactly 0.5 under the threshold 0.5 passes
C11_Witness ==
    /\ mpc = "scored"
    /\ ScoredName = "context_relevancy"
    /\ metric_score.threshold = 500
    /\ metric_score.value = Float(1, 2)
    /\ metric_score.passed

\* C12: a MetricScore exists only with 0.0 <= value <= 1.0: a MetricScore(...) call
\* with a value below 0 or above 1 raises ValueError and yields no object, and a
\* call with a value in the range, 0.0 and 1.0 included, yields the object.
C12_ScoreRange ==
    /\ metric_score # NoObject =>
          /\ 0 <= metric_score.value.num
          /\ metric_score.value.num <= metric_score.value.den
    /\ (mpc \in {"scored", "direct"}) => metric_score = score_args
    /\ \A v \in DirectValues :
          (mpc \in {"direct", "failed"} /\ score_args # <<>> /\ score_args.metric_name = "test"
             /\ score_args.value = v) =>
                IF v.num < 0 \/ v.num > v.den
                THEN /\ metric_score = NoObject
                     /\ mpc = "failed"
                     /\ raised = [kind |-> "ValueError", at |-> "MetricScore"]
                ELSE /\ metric_score = score_args
                     /\ mpc = "direct"
                     /\ raised = NoRaise

\* C12 witness: MetricScore(value = 1.5) raised and left no object
C12_Witness ==
    /\ mpc = "failed"
    /\ raised = [kind |-> "ValueError", at |-> "MetricScore"]
    /\ score_args.value = Float(3, 2)
    /\ metric_score = NoObject

\* the bounds 0.0 and 1.0 are accepted
C12_BoundsAccepted ==
    /\ mpc = "direct"
    /\ metric_score.value \in {Float(0, 1), Float(1, 1)}

\* C13: TestCase(...) with an empty question and RAGOutput(...) with an empty answer
\* or an empty contexts list raise ValueError at once and produce no object; so
\* every TestCase has a question, every RAGOutput an answer and a context, no
\* metric computes on anything else, and execute of the HTTP adapter returns no
\* RAGOutput with an empty answer or without contexts.
C13_Validated ==
    /\ mpc \notin {"absent", "start"} =>
          IF raw_case.question = ""
          THEN /\ test_case = NoObject
               /\ mpc = "failed"
               /\ raised = [kind |-> "ValueError", at |-> "TestCase"]
          ELSE /\ test_case # NoObject
               /\ test_case.question # ""
    /\ mpc \notin {"absent", "start", "case"} /\ raw_case.question # "" =>
          IF raw_output.answer = "" \/ raw_output.contexts = <<>>
          THEN /\ rag_output = NoObject
               /\ mpc = "failed"
               /\ raised = [kind |-> "ValueError", at |-> "RAGOutput"]
          ELSE /\ rag_output # NoObject
               /\ rag_output.answer # ""
               /\ rag_output.contexts # <<>>
    /\ computed # NoValue =>
          /\ test_case # NoObject /\ test_case.question # ""
          /\ rag_output # NoObject /\ rag_output.answer # "" /\ rag_output.contexts # <<>>
    /\ outcome.kind = "RAGOutput" => outcome.answer # "" /\ outcome.contexts # <<>>

\* C13 witness: RAGOutput(answer = "I don't know", contexts = []) raised, no metric ran
C13_Witness ==
    /\ mpc = "failed"
    /\ raised = [kind |-> "ValueError", at |-> "RAGOutput"]
    /\ raw_output.answer = "I don't know"
    /\ raw_output.contexts = <<>>
    /\ rag_output = NoObject
    /\ computed = NoValue

\* C14: on every constructed TestCase and RAGOutput each of the four metrics' compute
\* returns a float in [0, 1] and raises nothing (no ZeroDivisionError, no max() of
\* an empty list), so evaluate never fails the range check of MetricScore; an answer
\* of low quality gets a low score, not an error.
C14_ComputeTotal ==
    /\ computed # NoValue =>
          /\ IsFloat(computed)
          /\ 0 <= computed.num
          /\ computed.num <= computed.den
    /\ raised.at # "compute"
    /\ raised.at = "MetricScore" => score_args.metric_name = "test"
    /\ (mpc \in {"ready", "scored"} /\ cur_metric > 1) =>
          metric_score # NoObject

\* C14 witness: groundedness over a context without any key term takes the guarded
\* branch instead of dividing by zero
C14_Witness ==
    /\ mpc = "scored"
    /\ ScoredName = "groundedness"
    /\ rag_output.answer = " PARIS "
    /\ rag_output.contexts = <<"To be or not">>
    /\ extract_key_terms(rag_output.contexts) = {}
    /\ computed = Float(1, 1)

\* the lowercased whitespace tokens of a text
Words(s) == split_set(lower(s))

\* the trimmed fragment of an answer that starts at position i and runs to the next
\* sentence terminator
Fragment(answer, i) == strip(SubSeq(answer, i, RunEnd(answer, Terminators, i)))

\* the start positions of the fragments that count as claims
ClaimStarts(answer) ==
    {i \in RunStarts(answer, Terminators) : Len(Fragment(answer, i)) > 10}

\* one context holds strictly more than 60% of the words of the claim
SupportedBySome(claim, ctxs) ==
    \E k \in 1 .. Len(ctxs) :
        10 * Cardinality(Words(claim) \cap Words(ctxs[k])) > 6 * Cardinality(Words(claim))

\* the contexts together hold strictly more than 60% of the words of the claim
SupportedByUnion(claim, ctxs) ==
    10 * Cardinality(Words(claim) \cap UNION {Words(ctxs[k]) : k \in 1 .. Len(ctxs)})
        > 6 * Cardinality(Words(claim))

C16_FaithfulScenario ==
    (/\ mpc = "scored"
     /\ ScoredName = "faithfulness"
     /\ rag_output.answer = "The product costs $100."
     /\ rag_output.contexts = <<"Price: $100">>) =>
        computed.num * 10 >= 8 * computed.den

\* the key terms of the contexts: lowercased tokens longer than 3 characters that
\* are no stop words
KeyTerms(ctxs) ==
    {w \in UNION {Words(ctxs[k]) : k \in 1 .. Len(ctxs)} : Len(w) > 3 /\ w \notin stop_words}

\* C17: groundedness is 1.0 when the contexts have no key term; otherwise it is the
\* number of key terms occurring as a substring of the lowercased answer divided by
\* the number of key terms, so that an answer holding none of them scores below 0.5.
C17_Groundedness ==
    (mpc = "scored" /\ ScoredName = "groundedness") =>
        LET terms == KeyTerms(rag_output.contexts)
            used == {t \in terms : IsSubstring(t, lower(rag_output.answer))}
        IN  /\ terms = {} => computed = Float(1, 1)
            /\ terms # {} => computed.num * Cardinality(terms) = Cardinality(used) * computed.den
            /\ (terms # {} /\ used = {}) => 2 * computed.num < computed.den

\* C17 witness: "I don't know" against the seven key terms of the two contexts
C17_Witness ==
    /\ mpc = "scored"
    /\ ScoredName = "groundedness"
    /\ rag_output.answer = "I don't know"
    /\ rag_output.contexts = <<"Price: $100", "Available colors: red, blue, green">>
    /\ Cardinality(KeyTerms(rag_output.contexts)) = 7
    /\ computed = Float(0, 1)

\* the keywords of a question: lowercased tokens, alphanumeric, longer than 3 characters
Keywords(question) ==
    {w \in Words(question) : Len(w) > 3 /\ \A i \in 1 .. Len(w) :
        At(w, i) \in CharsOf(LowerCase \o DecimalDigits)}

\* the score of one context, in units of 1 / (20 * number of keywords), given the
\* length factor in tenths: half of the units without keywords, else
\* min(coverage * factor, 1.0)
ContextUnits(question, context, tenths) ==
    LET kw == Keywords(question)
        found == Cardinality({w \in kw : IsSubstring(w, lower(context))})
        units == 2 * found * tenths
    IN  IF kw = {} THEN 10
        ELSE IF units > 20 * Cardinality(kw) THEN 20 * Cardinality(kw) ELSE units

\* what all units together amount to
AllUnits(question) == IF Keywords(question) = {} THEN 20 ELSE 20 * Cardinality(Keywords(question))

RECURSIVE SumUnits(_, _, _)
SumUnits(question, ctxs, tenths) ==
    IF ctxs = <<>> THEN 0
    ELSE ContextUnits(question, ctxs[1], tenths[1]) + SumUnits(question, Tail(ctxs), Tail(tenths))

\* the length factor the code gives a context, in tenths
CodeTenths(context) == IF length_penalty(split_len(context)) = Float(1, 1) THEN 10 ELSE 9

\* C18: context relevancy is 0.0 for an output without contexts; otherwise it is the
\* arithmetic mean of the scores of the contexts, each scored on its own: 0.5 when
\* the question has no keyword, else min(coverage * penalty, 1.0), coverage being
\* the share of the question's keywords found as substrings of the lowercased context.
C18_ContextRelevancy ==
    /\ (mpc = "scored" /\ ScoredName = "context_relevancy") =>
          LET ctxs == rag_output.contexts
              tenths == [k \in 1 .. Len(ctxs) |-> CodeTenths(ctxs[k])]
          IN  computed.num * AllUnits(test_case.question) * Len(ctxs)
                 = SumUnits(test_case.question, ctxs, tenths) * computed.den
    /\ (mpc = "scored" /\ ScoredName = "context_relevancy") =>
          ContextRelevancyCompute(test_case, [rag_output EXCEPT !.contexts = <<>>]) = Float(0, 1)

\* C18 witness: two keywords; one context holds one of them, the other none: (0.5 + 0) / 2
C18_Witness ==
    /\ mpc = "scored"
    /\ ScoredName = "context_relevancy"
    /\ Keywords(test_case.question) = {"price", "colors"}
    /\ rag_output.contexts = <<"Price: $100", "To be or not">>
    /\ computed = Float(1, 4)

\* the length factor as stated, in tenths: 0.9 above `limit` tokens, else 1.0
StatedTenths(context, limit) == IF split_len(context) > limit THEN 9 ELSE 10

\* context relevancy is the mean of the context scores under the length factors given
LengthFactorIs(tenths) ==
    (mpc = "scored" /\ ScoredName = "context_relevancy") =>
        computed.num * AllUnits(test_case.question) * Len(rag_output.contexts)
           = SumUnits(test_case.question, rag_output.contexts, tenths) * computed.den

\* C19 as stated: the length factor of a context is 0.9 exactly when it has more
\* than 200 whitespace-separated tokens, so 1.0 for exactly 200 tokens.
C19_AsStated ==
    LengthFactorIs([k \in 1 .. Len(rag_output.contexts) |->
                       StatedTenths(rag_output.contexts[k], LongContext)])

\* C19: the length factor of a context is 0.9 exactly when it has 200 or more
\* whitespace-separated tokens (more than 199) and 1.0 otherwise; a context of
\* exactly 200 tokens gets 0.9.
C19_LengthPenalty ==
    LengthFactorIs([k \in 1 .. Len(rag_output.contexts) |->
                       StatedTenths(rag_output.contexts[k], LongContext - 1)])

\* C19 witness: a context of exactly 200 tokens holding one of two keywords: 0.5 * 0.9
C19_Witness ==
    /\ mpc = "scored"
    /\ ScoredName = "context_relevancy"
    /\ Len(rag_output.contexts) = 1
    /\ split_len(rag_output.contexts[1]) = LongContext
    /\ Keywords(test_case.question) = {"price", "colors"}
    /\ computed = Float(9, 20)

\* C20: when the answer and the expected answer are the same after lowercasing and
\* trimming, answer correctness is 1.0, with or without an acceptable-answers list.
C20_IdenticalIsPerfect ==
    (/\ mpc = "scored"
     /\ ScoredName = "answer_correctness"
     /\ test_case.expected_answer # None
     /\ strip(lower(rag_output.answer)) = strip(lower(test_case.expected_answer[1]))) =>
        computed = Float(1, 1)

\* ---------------------------------------------------------------------------
\* Answer correctness: choice of the reference (C21) and similarity (C28)
\* ---------------------------------------------------------------------------

Normalized(s) == strip(lower(s))

\* similarity of the generated answer to every candidate of a list
Similarities(generated, candidates) ==
    [k \in 1..Len(candidates) |-> compute_similarity(generated, Normalized(candidates[k]))]

\* C21: answer correctness is 1.0 by default only when the case has neither an
\* expected answer nor an acceptable-answers list; whenever an acceptable-answers
\* list is present, with or without an expected answer, the score is the maximum
\* similarity between the generated answer and the candidates of the list;
\* otherwise it is the similarity to the single expected answer.
C21_ReferenceChoice ==
    (mpc = "scored" /\ ScoredName = "answer_correctness") =>
        LET generated == Normalized(rag_output.answer)
        IN  IF TruthyList(test_case.acceptable_answers)
            THEN computed = MaxQ(Similarities(generated, test_case.acceptable_answers[1]))
            ELSE IF TruthyStr(test_case.expected_answer)
            THEN computed = compute_similarity(generated,
                                               Normalized(test_case.expected_answer[1]))
            ELSE computed = Float(1, 1)

\* the reference strings of the test case, normalized: the expected answer and
\* the candidates of the acceptable-answers list
References ==
    (IF test_case.expected_answer = None THEN {}
     ELSE {Normalized(test_case.expected_answer[1])})
    \cup (IF test_case.acceptable_answers = None THEN {}
          ELSE {Normalized(test_case.acceptable_answers[1][k]) :
                    k \in 1 .. Len(test_case.acceptable_answers[1])})

\* v = min(0.7 * J + 0.3 * L, 1.0) for the strings a and b, with J the Jaccard
\* ratio of their whitespace-token sets (0 when the union is empty) and L the
\* ratio of the shorter to the longer length in characters; compared by cross
\* multiplication: 0.7 * i/u + 0.3 * lo/hi = (7 * i * hi + 3 * lo * u) / (10 * u * hi)
IsStatedSimilarity(v, a, b) ==
    LET A == split_set(a)
        B == split_set(b)
        i == Cardinality(A \cap B)
        u == IF A \cup B = {} THEN 1 ELSE Cardinality(A \cup B)
        lo == IF Len(a) <= Len(b) THEN Len(a) ELSE Len(b)
        hi == IF Len(a) <= Len(b) THEN Len(b) ELSE Len(a)
        n == 7 * i * hi + 3 * lo * u
        d == 10 * u * hi
    IN  /\ v.kind = "float"
        /\ hi > 0
        /\ IF n >= d THEN v.num = v.den ELSE v.num * d = v.den * n

InDataset == ppc \in {"loop", "metrics", "finished", "error"}

\* the input positions of the cases that were not dropped, in input order
Surviving ==
    SelectSeq([i \in 1 .. Len(test_cases) |-> i], LAMBDA i : ~Dropped(i))

\* C22: for a non-empty list of test cases the EvaluationResult returned holds
\* exactly one TestCaseResult per input case: total_tests and the summary's
\* total_tests equal the number of input cases and the i-th result refers to
\* the i-th input case.
C22_OnePerCase ==
    (ppc = "finished" /\ test_cases # <<>>) =>
        /\ total_tests(evaluation) = Len(test_cases)
        /\ "total_tests" \in DOMAIN evaluation.summary
        /\ evaluation.summary["total_tests"] = <<Len(test_cases), 1>>
        /\ \A i \in 1 .. Len(test_cases) :
              evaluation.test_case_results[i].test_case = test_cases[i]

\* C23: evaluate_dataset given an empty list raises its "No test cases found"
\* error instead of returning an EvaluationResult, and neither the adapter nor
\* a metric is invoked; it raises for no other list.
C23_EmptyDataset ==
    /\ (test_cases = <<>> /\ ppc # "start") =>
          /\ ppc = "error"
          /\ evaluation = <<>>
          /\ events = <<>>
          /\ results = <<>>
    /\ ppc = "error" => test_cases = <<>>

\* C23 witness: the error was raised by a pipeline that has metrics
C23_Witness ==
    /\ ppc = "error"
    /\ test_cases = <<>>
    /\ Len(metrics) = 3

EnabledNames == {n \in Names : config[n].enabled}

\* C24: the metrics built at construction are exactly those whose configuration
\* has enabled = true, each with the configured threshold and required flag, and
\* they stay as built; the keys of metric_scores of every evaluated case are
\* exactly the names of the enabled metrics, and the summary has an avg_<metric>
\* entry only for enabled metrics.
C24_EnabledMetrics ==
    /\ {metrics[k].name : k \in 1 .. Len(metrics)} = EnabledNames
    /\ Len(metrics) = Cardinality(EnabledNames)
    /\ \A k \in 1 .. Len(metrics) :
          /\ metrics[k].threshold = config[metrics[k].name].threshold
          /\ metrics[k].required = config[metrics[k].name].required
    /\ \A j \in 1 .. Len(results) : DOMAIN results[j].metric_scores = EnabledNames
    /\ ppc = "finished" =>
          /\ \A j \in 1 .. Len(evaluation.test_case_results) :
                DOMAIN evaluation.test_case_results[j].metric_scores = EnabledNames
          /\ \A n \in Names :
                ("avg_" \o n) \in DOMAIN evaluation.summary => n \in EnabledNames

\* C24 witness: groundedness is disabled; an evaluated case has scores for the
\* three other metrics and the summary has no avg_groundedness
C24_Witness ==
    /\ ppc = "finished"
    /\ EnabledNames = Names \ {"groundedness"}
    /\ Len(evaluation.test_case_results) = 2
    /\ DOMAIN evaluation.test_case_results[2].metric_scores = Names \ {"groundedness"}
    /\ "avg_faithfulness" \in DOMAIN evaluation.summary
    /\ "avg_groundedness" \notin DOMAIN evaluation.summary

C30_PassedMeansAllPassed ==
    (ppc = "finished" /\ evaluation.passed) =>
        /\ total_tests(evaluation) = Len(test_cases)
        /\ \A i \in 1 .. Len(test_cases) :
              /\ AllEvaluated(i)
              /\ ~Dropped(i)
              /\ evaluation.test_case_results[i].test_case = test_cases[i]
              /\ evaluation.test_case_results[i].passed

\* ---------------------------------------------------------------------------
\* CustomHTTPAdapter: the 404 fallback through BaseRAGAdapter.execute
\* (C25, C27, C29)
\* ---------------------------------------------------------------------------

\* a _retry_request call is in progress
CallInProgress == pc \in {"retry", "backoff", "returned", "raised"}

\* the calls of retrieve / generate made so far by BaseRAGAdapter.execute:
\* the finished ones and the one in progress
CallsOf(e) ==
    Cardinality({j \in 1 .. Len(history) : history[j].ep = e})
        + (IF CallInProgress /\ ep = e THEN 1 ELSE 0)

\* the retrieve call of the fallback returned a list of contexts
Retrieved ==
    /\ Len(history) >= 2
    /\ history[2].ep = "retrieve"
    /\ history[2].how = "ok"
    /\ history[2].received.valid

\* C25: BaseRAGAdapter.execute(query) calls retrieve(query) once and then
\* generate once, with the contexts retrieve returned; the RAGOutput carries
\* question = query, those contexts and the answer of generate; if retrieve
\* fails, generate is not called and there is no RAGOutput.
C25_BaseExecute ==
    fallback =>
        /\ CallsOf("retrieve") = 1
        /\ CallsOf("generate") <= 1
        /\ (CallInProgress /\ ep = "retrieve") => payload = [query |-> query, contexts |-> <<>>]
        /\ CallsOf("generate") = 1 =>
              /\ Retrieved
              /\ contexts = history[2].received.contexts
              /\ (CallInProgress /\ ep = "generate") =>
                    payload = [query |-> query,
                               contexts |-> <<history[2].received.contexts>>]
        /\ pc = "done" =>
              /\ history[2].ep = "retrieve"
              /\ history[2].sent.query = query
              /\ IF Retrieved
                 THEN /\ Len(history) = 3
                      /\ history[3].ep = "generate"
                      /\ history[3].sent = [query |-> query,
                                            contexts |-> <<history[2].received.contexts>>]
                      /\ outcome.kind = "RAGOutput" =>
                            /\ history[3].how = "ok"
                            /\ outcome.question = query
                            /\ outcome.contexts = history[2].received.contexts
                            /\ outcome.answer = history[3].received.answer
                 ELSE /\ Len(history) = 2
                      /\ CallsOf("generate") = 0
                      /\ outcome.kind # "RAGOutput"

\* C25 witness: the fallback returned a RAGOutput for query "q2" with the
\* contexts of /retrieve and the answer of /generate
C25_Witness ==
    /\ fallback
    /\ pc = "done"
    /\ query = "q2"
    /\ Len(history) = 3
    /\ history[3].sent = [query |-> "q2", contexts |-> <<(<<"ctx">>)>>]
    /\ outcome = [kind |-> "RAGOutput", why |-> "", cause |-> "none", question |-> "q2",
                  answer |-> "ans", contexts |-> <<"ctx">>]

TotalRequests == reqCount["rag"] + reqCount["retrieve"] + reqCount["generate"]

\* C27: in the 404 fallback /retrieve and /generate each get a fresh budget of
\* max_retries attempts, whatever was spent on /rag or on each other; a call of
\* execute makes at most 3 x max_retries requests; a 404 from /retrieve or
\* /generate triggers no further fallback.
C27_FreshBudgets ==
    op = "execute" =>
        /\ \A e \in Endpoints : reqCount[e] <= max_retries
        /\ TotalRequests <= 3 * max_retries
        /\ pc = "retry" => attempt = reqCount[ep]
        /\ (pc = "raised" /\ exc.kind = "IntegrationError") => reqCount[ep] = max_retries
        /\ Len(history) <= 3
        /\ \A j \in 2 .. Len(history) :
              history[j].how = "HTTPStatusError" =>
                  /\ j = Len(history)
                  /\ pc = "done"
                  /\ outcome.kind = "IntegrationError"
                  /\ outcome.why = "fallback_failed"

\* C27 witness: /rag answered 404 on its last attempt, /retrieve and /generate
\* each succeeded on their last attempt: 3 x max_retries requests in all
C27_Witness ==
    /\ op = "execute"
    /\ pc = "done"
    /\ max_retries = 3
    /\ reqCount = [e \in Endpoints |-> 3]
    /\ outcome.kind = "RAGOutput"

\* C27 witness of the second part: /generate answered 404 in the fallback
C27_NoSecondFallback ==
    /\ op = "execute"
    /\ pc = "done"
    /\ Len(history) = 3
    /\ history[3].how = "HTTPStatusError"
    /\ history[3].code = NotFound

\* the scheduling of a sequential program: a step that can be taken is taken
SpecAdapterLive == SpecAdapter /\ WF_vars(NextAdapter)

\* the liveness part of C27: every call of execute ends, with a RAGOutput or an error
C27_Terminates == (op = "execute") ~> (op = "execute" /\ pc = "done")

\* C29: every failure of CustomHTTPAdapter.execute reaches the caller as an
\* IntegrationError, on the /rag path and on the 404 fallback path alike,
\* an empty answer or an empty contexts list included.
C29_OnlyIntegrationError ==
    (op = "execute" /\ pc = "done") => outcome.kind \in {"RAGOutput", "IntegrationError"}

====
